---- MODULE Spec2Model ----
(***************************************************************************)
(* The ping-pong HTTP server of src/rust/main.rs: an actix-web App with    *)
(* three GET routes and a default service, wrapped by the actix-cors       *)
(* middleware (inner) and the actix-web Logger middleware (outer), run by  *)
(* an HttpServer with 4 workers bound to 0.0.0.0:8000.                     *)
(*                                                                         *)
(* A request is followed through one worker in two steps: Handle (the      *)
(* worker takes the request from the shared listening socket and runs it   *)
(* through the Cors middleware, the router, the handler and the Cors       *)
(* response augmentation, all synchronous code of one worker thread) and   *)
(* Finish (the Logger middleware writes its access record and the response *)
(* goes to the client).  The wall clock read by Utc::now() and the start   *)
(* and shutdown of the process are part of the state.                      *)
(*                                                                         *)
(* The middleware is that of actix-web 4 and actix-cors 0.6 and later: the  *)
(* last wrap is the outermost, App::route moves the route's method guard   *)
(* to the resource, Cors answers a preflight request itself and echoes the *)
(* Origin of any other, Logger writes one info record per request.         *)
(*                                                                         *)
(* The clients of one run address one resource (a method and a path), with *)
(* any headers; the first request chooses it.  Spec runs the server in its *)
(* default environment, SpecLog with RUST_LOG set to any filter, and       *)
(* SpecPayload with requests that carry a query string and a body.         *)
(***************************************************************************)
EXTENDS Integers, Sequences, FiniteSets, TLC

\* ---------------------------------------------------------------- bounds
\* Requests accepted in one run of the server.
MaxRequests == 2
\* Largest value of the wall clock.
MaxClock == 1
\* Times the wall clock is set back in one run.
MaxSetBacks == 1

\* ------------------------------------------------------ program constants
NumWorkers == 4
MaxAge == 3600

Workers == 1..NumWorkers

\* ----------------------------------------------------------------- inputs
\* A header that the request or the response does not carry.
NoHeader == "<absent>"

Methods == {"GET", "POST", "OPTIONS"}
Paths == {"/", "/ping", "/health", "/unknown"}
\* Values of the request's Origin header.
Origins == {NoHeader, "https://a.example"}
\* Values of the request's Access-Control-Request-Method header.
RequestMethods == {NoHeader, "GET"}
\* Query string and body of the request: none, or some.
Plain == [query |-> "", body |-> ""]
Loaded == [query |-> "x=1", body |-> "data"]

RequestsWith(payloads) ==
    { [method |-> m, path |-> p, origin |-> o, acrm |-> a,
       query |-> pl.query, body |-> pl.body] :
        m \in Methods, p \in Paths, o \in Origins, a \in RequestMethods,
        pl \in payloads }

\* The requests without query string and body, and all of them.
Requests == RequestsWith({Plain})
LoadedRequests == RequestsWith({Plain, Loaded})

\* Values of the RUST_LOG filter; without the variable, main sets "info".
DefaultFilter == "info"
Filters == {"info", "warn", "error"}

VARIABLES
    phase,      \* "starting", "serving" or "exited"
    exitCode,   \* the process's exit status, -1 while it runs
    binds,      \* calls of HttpServer::bind made so far
    bound,      \* whether the listening socket was bound
    filter,     \* the level filter of the process-wide logger
    clock,      \* the wall clock, as Utc::now() reads it
    setBacks,   \* times the wall clock has been set back
    accepted,   \* requests taken from the listening socket so far
    worker,     \* per worker: what it is doing
    sent        \* the exchanges completed so far, in the order of the responses

vars == <<phase, exitCode, binds, bound, filter, clock, setBacks, accepted, worker, sent>>

\* ---------------------------------------------------------------- logging
LevelRank(level) ==
    CASE level = "error" -> 1
      [] level = "warn" -> 2
      [] level = "info" -> 3

\* log::info! / log::warn! under the filter env_logger was initialised with:
\* the records written, none when the filter excludes the level.
Emit(flt, level, target, msg) ==
    IF LevelRank(level) <= LevelRank(flt)
    THEN << [level |-> level, target |-> target, msg |-> msg] >>
    ELSE << >>

\* ------------------------------------------------------------- responses
NoHeaders == [h \in {} |-> ""]
EmptyBody == [f \in {} |-> ""]

\* Mutant of Json: the body is sent as text.
Json_Text(status, value) ==
    [status |-> status,
     headers |-> ("content-type" :> "text/plain"),
     body |-> value]

\* HttpResponse::Ok().json(v), HttpResponse::NotFound().json(v): the status,
\* Content-Type: application/json and the serialised value, whose keys are
\* the fields of the struct.
Json(status, value) ==
    [status |-> status,
     headers |-> ("content-type" :> "application/json"),
     body |-> value]

\* HashMap::insert
Insert(map, key, value) == (key :> value) @@ map

\* ---------------------------------------------------------------- handlers
\* Mutant of root: the health endpoint is left out of the mapping.
root_NoHealth(flt) ==
    LET endpoints == Insert([k \in {} |-> ""], "ping", "/ping")
        response == [message |-> "Welcome to the Ping-Pong Server Rust Actix!",
                     endpoints |-> endpoints]
    IN [resp |-> Json(200, response),
        logs |-> Emit(flt, "info", "crate", "Handled root request")]

\* Each handler yields the response and the log records it writes.
root(flt) ==
    LET endpoints == Insert(Insert([k \in {} |-> ""], "ping", "/ping"),
                            "health", "/health")
        response == [message |-> "Welcome to the Ping-Pong Server Rust Actix!",
                     endpoints |-> endpoints]
    IN [resp |-> Json(200, response),
        logs |-> Emit(flt, "info", "crate", "Handled root request")]

\* Mutant of ping: the timestamp is the epoch, not the clock.
ping_Epoch(flt, now) ==
    LET response == [message |-> "pong", timestamp |-> 0, success |-> TRUE]
    IN [resp |-> Json(200, response),
        logs |-> Emit(flt, "info", "crate", "Handled ping request")]

ping(flt, now) ==
    LET response == [message |-> "pong", timestamp |-> now, success |-> TRUE]
    IN [resp |-> Json(200, response),
        logs |-> Emit(flt, "info", "crate", "Handled ping request")]

\* Mutant of health: the timestamp is the epoch, not the clock.
health_Epoch(flt, now) ==
    LET response == [status |-> "healthy", timestamp |-> 0]
    IN [resp |-> Json(200, response),
        logs |-> Emit(flt, "info", "crate", "Handled health check request")]

health(flt, now) ==
    LET response == [status |-> "healthy", timestamp |-> now]
    IN [resp |-> Json(200, response),
        logs |-> Emit(flt, "info", "crate", "Handled health check request")]

\* Mutant of not_found: the time is written into the message.
not_found_TimeInMessage(flt, now) ==
    LET response == [message |-> <<"Not Found", now>>, timestamp |-> now,
                     success |-> FALSE]
    IN [resp |-> Json(404, response),
        logs |-> Emit(flt, "warn", "crate", "Handled 404 request")]

\* Mutant of not_found: the record is written at info level.
not_found_LogsInfo(flt, now) ==
    LET response == [message |-> "Not Found", timestamp |-> now,
                     success |-> FALSE]
    IN [resp |-> Json(404, response),
        logs |-> Emit(flt, "info", "crate", "Handled 404 request")]

not_found(flt, now) ==
    LET response == [message |-> "Not Found", timestamp |-> now,
                     success |-> FALSE]
    IN [resp |-> Json(404, response),
        logs |-> Emit(flt, "warn", "crate", "Handled 404 request")]

\* ------------------------------------------------------------------ router
\* Mutant of Route: the routes match every method (web::route() for
\* web::get()).
Route_AnyMethod(req) ==
    IF req.path = "/" THEN "root"
    ELSE IF req.path = "/ping" THEN "ping"
    ELSE IF req.path = "/health" THEN "health"
    ELSE "not_found"

\* Mutant of Route: the routes match the request target, query string
\* included.
Route_MatchTarget(req) ==
    IF req.query # "" THEN "not_found"
    ELSE IF req.method = "GET" /\ req.path = "/" THEN "root"
    ELSE IF req.method = "GET" /\ req.path = "/ping" THEN "ping"
    ELSE IF req.method = "GET" /\ req.path = "/health" THEN "health"
    ELSE "not_found"

\* App::route(path, web::get().to(h)) registers a resource guarded by the
\* route's GET guard, so a request matches it only with that path and GET;
\* the query string is no part of the path.  Everything else goes to the
\* default service.
Route(req) ==
    IF req.method = "GET" /\ req.path = "/" THEN "root"
    ELSE IF req.method = "GET" /\ req.path = "/ping" THEN "ping"
    ELSE IF req.method = "GET" /\ req.path = "/health" THEN "health"
    ELSE "not_found"

Dispatch(req, flt, now) ==
    CASE Route(req) = "root" -> root(flt)
      [] Route(req) = "ping" -> ping(flt, now)
      [] Route(req) = "health" -> health(flt, now)
      [] Route(req) = "not_found" -> not_found(flt, now)

\* -------------------------------------------------------- Cors middleware
\* Cors::default().allow_any_origin().allow_any_method().allow_any_header()
\* .max_age(3600); preflight handling and the Vary header are on by default,
\* send_wildcard is off.
AllMethods ==
    {"GET", "POST", "PUT", "DELETE", "HEAD", "OPTIONS", "CONNECT", "PATCH", "TRACE"}
VaryValue == "Origin, Access-Control-Request-Method, Access-Control-Request-Headers"

\* A preflight request: OPTIONS with an Access-Control-Request-Method header.
IsPreflight(req) == req.method = "OPTIONS" /\ req.acrm # NoHeader

\* Mutant of AllowOrigin: the wildcard is sent to every request
\* (send_wildcard).
AllowOrigin_Wildcard(req) == ("access-control-allow-origin" :> "*")

\* Access-Control-Allow-Origin: with any origin allowed and no wildcard, the
\* request's Origin is echoed; without an Origin there is no header.
AllowOrigin(req) ==
    IF req.origin # NoHeader
    THEN ("access-control-allow-origin" :> req.origin)
    ELSE NoHeaders

\* The middleware answers a preflight request itself: 200 with an empty
\* body, and the inner service is not called.
Preflight(req) ==
    [status |-> 200,
     headers |-> AllowOrigin(req)
                 @@ ("access-control-allow-methods" :> AllMethods)
                 @@ ("access-control-max-age" :> ToString(MaxAge))
                 @@ ("vary" :> VaryValue),
     body |-> EmptyBody]

\* Every other response gets the allow-origin header (for a request with an
\* Origin) and the Vary header.
Augment(req, resp) ==
    [resp EXCEPT !.headers = AllowOrigin(req) @@ ("vary" :> VaryValue) @@ @]

\* The wrapped App on one request: the response and the records written by
\* the handler.
Cors(req, flt, now) ==
    IF IsPreflight(req)
    THEN [resp |-> Preflight(req), logs |-> << >>, handler |-> "cors"]
    ELSE LET out == Dispatch(req, flt, now)
         IN [resp |-> Augment(req, out.resp), logs |-> out.logs,
             handler |-> Route(req)]

\* ------------------------------------------------------ Logger middleware
\* Logger::default() writes one access record at info level when the
\* response is complete.
AccessLog(flt, req, resp) ==
    Emit(flt, "info", "actix_web::middleware::logger",
         <<req.method, req.path, resp.status>>)

\* ------------------------------------------------------------------ state
Idle == [pc |-> "idle"]

\* After env_logger::init_from_env, before bind.
Started(filters) ==
    /\ phase = "starting"
    /\ exitCode = -1
    /\ binds = 0
    /\ bound = FALSE
    /\ filter \in filters
    /\ clock = 0
    /\ setBacks = 0
    /\ accepted = 0
    /\ worker = [w \in Workers |-> Idle]
    /\ sent = << >>

Init == Started({DefaultFilter})
InitLog == Started(Filters)

\* .bind(&bind_address)? succeeds: the server runs.
BindOk ==
    /\ phase = "starting"
    /\ phase' = "serving"
    /\ binds' = binds + 1
    /\ bound' = TRUE
    /\ UNCHANGED <<exitCode, filter, clock, setBacks, accepted, worker, sent>>

\* Mutant of BindFail: the error is dropped and the server is run.
BindFail_Ignored ==
    /\ phase = "starting"
    /\ phase' = "serving"
    /\ binds' = binds + 1
    /\ UNCHANGED <<exitCode, bound, filter, clock, setBacks, accepted, worker, sent>>

\* .bind(&bind_address)? fails: main returns the error, the process ends
\* with a failure status.
BindFail ==
    /\ phase = "starting"
    /\ phase' = "exited"
    /\ exitCode' = 1
    /\ binds' = binds + 1
    /\ UNCHANGED <<bound, filter, clock, setBacks, accepted, worker, sent>>

\* The workers that hold a request.
Busy == {w \in Workers : worker[w].pc # "idle"}
SameResource(r1, r2) == r1.method = r2.method /\ r1.path = r2.path

\* A worker takes a request from the listening socket and runs it through
\* Cors and the App.  `after` counts the responses the clients had when the
\* request was handled, `era` the times the clock had been set back.
Handle(w, req) ==
    /\ phase = "serving"
    /\ worker[w].pc = "idle"
    /\ accepted < MaxRequests
    /\ \A v \in Busy : SameResource(worker[v].req, req)
    /\ \A i \in DOMAIN sent : SameResource(sent[i].req, req)
    /\ accepted' = accepted + 1
    /\ LET out == Cors(req, filter, clock)
       IN worker' = [worker EXCEPT ![w] =
                       [pc |-> "handled", after |-> Len(sent), req |-> req,
                        resp |-> out.resp, logs |-> out.logs,
                        handler |-> out.handler, era |-> setBacks]]
    /\ UNCHANGED <<phase, exitCode, binds, bound, filter, clock, setBacks, sent>>

\* The response is complete: Logger writes its record, the client has the
\* response, the worker is free.
Finish(w) ==
    /\ phase = "serving"
    /\ worker[w].pc = "handled"
    /\ sent' = Append(sent,
                 [after |-> worker[w].after,
                  req |-> worker[w].req, resp |-> worker[w].resp,
                  handler |-> worker[w].handler, era |-> worker[w].era,
                  logs |-> worker[w].logs
                           \o AccessLog(filter, worker[w].req, worker[w].resp)])
    /\ worker' = [worker EXCEPT ![w] = Idle]
    /\ UNCHANGED <<phase, exitCode, binds, bound, filter, clock, setBacks, accepted>>

\* The wall clock advances.
Tick ==
    /\ phase # "exited"
    /\ clock < MaxClock
    /\ clock' = clock + 1
    /\ UNCHANGED <<phase, exitCode, binds, bound, filter, setBacks, accepted, worker, sent>>

\* The wall clock is set back (an NTP step, an operator): Utc::now() reads
\* the system's real-time clock, which is not monotonic.
SetBack ==
    /\ setBacks < MaxSetBacks
    /\ phase # "exited"
    /\ \E t \in 0..(clock - 1) : clock' = t
    /\ setBacks' = setBacks + 1
    /\ UNCHANGED <<phase, exitCode, binds, bound, filter, accepted, worker, sent>>

\* A termination signal: the server future resolves Ok(()), main returns
\* it and the process ends with status 0.  The workers end with it: a
\* request still in one gets no response (a forced stop; a graceful stop is
\* the run in which the workers finished first).
Shutdown ==
    /\ phase = "serving"
    /\ phase' = "exited"
    /\ exitCode' = 0
    /\ worker' = [w \in Workers |-> Idle]
    /\ UNCHANGED <<binds, bound, filter, clock, setBacks, accepted, sent>>

\* What happens besides the arrival of a request.
Step ==
    \/ BindOk
    \/ BindFail
    \/ \E w \in Workers : Finish(w)
    \/ Tick
    \/ SetBack
    \/ Shutdown

Next == Step \/ \E w \in Workers, req \in Requests : Handle(w, req)
NextPayload == Step \/ \E w \in Workers, req \in LoadedRequests : Handle(w, req)

Spec == Init /\ [][Next]_vars
SpecLog == InitLog /\ [][Next]_vars
SpecPayload == Init /\ [][NextPayload]_vars

\* ================================================================ claims
\* What the clients and the log hold.
Sent == {sent[i] : i \in DOMAIN sent}

\* The responses built so far: sent, or ready in a worker.
Responses ==
    {[req |-> e.req, resp |-> e.resp, handler |-> e.handler] : e \in Sent}
    \cup {[req |-> worker[w].req, resp |-> worker[w].resp,
           handler |-> worker[w].handler] : w \in Busy}

\* The routing table of the specification.
Registered(req) == req.method = "GET" /\ req.path \in {"/", "/ping", "/health"}
Is(req, method, path) == req.method = method /\ req.path = path

\* A CORS preflight request.
PreflightRequest(req) == req.method = "OPTIONS" /\ req.acrm # NoHeader

Has(resp, header) == header \in DOMAIN resp.headers
SansTimestamp(body) == [f \in DOMAIN body \ {"timestamp"} |-> body[f]]

\* The step in which worker w handles a request, and the one in which its
\* response is sent.
Handles(w) == worker[w].pc = "idle" /\ worker'[w].pc = "handled"
Sends(w) ==
    /\ worker[w].pc = "handled"
    /\ worker'[w].pc = "idle"
    /\ Len(sent') = Len(sent) + 1

\* The response is sent as it was built.
SentAsBuilt ==
    \A w \in Workers :
        Sends(w) => /\ sent'[Len(sent')].req = worker[w].req
                    /\ sent'[Len(sent')].resp = worker[w].resp

NotFoundResponse(resp) ==
    /\ resp.status = 404
    /\ DOMAIN resp.body = {"message", "timestamp", "success"}
    /\ resp.body.message = "Not Found"
    /\ resp.body.success = FALSE

\* ---------------------------------------------------------------------- C1
\* C1 as stated: every request whose method and path are not GET /, GET /ping
\* or GET /health is dispatched to not_found and answered 404 with message
\* "Not Found" and success false.
C1_UnmatchedIs404 ==
    \A r \in Responses :
        ~Registered(r.req) => r.handler = "not_found" /\ NotFoundResponse(r.resp)

\* C1 amended: every request that is not a CORS preflight and whose method
\* and path are not GET /, GET /ping or GET /health is dispatched to
\* not_found and answered 404 with message "Not Found" and success false.
C1_UnmatchedIs404UnlessPreflight ==
    \A r \in Responses :
        ~Registered(r.req) /\ ~PreflightRequest(r.req)
            => r.handler = "not_found" /\ NotFoundResponse(r.resp)

\* Two POSTs to the registered path /ping, one of them with an Origin, were
\* answered 404 by not_found.
C1_Witness ==
    /\ \E e \in Sent : Is(e.req, "POST", "/ping") /\ e.resp.status = 404
    /\ \E e \in Sent :
        /\ e.req.method = "POST"
        /\ e.req.origin # NoHeader
        /\ e.handler = "not_found"

\* ---------------------------------------------------------------------- C2
\* C2: a GET of /ping is answered 200 with message "pong", success true and
\* the value the clock has when the request is handled as timestamp.
C2_PingBody ==
    \A r \in Responses :
        Is(r.req, "GET", "/ping")
            => /\ r.resp.status = 200
               /\ r.resp.body.message = "pong"
               /\ r.resp.body.success = TRUE

C2_PingStep ==
    /\ SentAsBuilt
    /\ \A w \in Workers :
        Handles(w) /\ Is(worker'[w].req, "GET", "/ping")
            => worker'[w].resp.body.timestamp = clock

\* C2: every response to a GET of /ping is 200 / "pong" / true at all times,
\* its timestamp is the clock of the step that handles the request, and it
\* is sent as it was built.
C2_Ping == []C2_PingBody /\ [][C2_PingStep]_vars

\* A GET of /ping was answered "pong" with a timestamp read after the clock
\* had advanced.
C2_Witness ==
    \E e \in Sent :
        /\ Is(e.req, "GET", "/ping")
        /\ e.resp.status = 200
        /\ e.resp.body.message = "pong"
        /\ e.resp.body.timestamp = MaxClock

\* ---------------------------------------------------------------------- C3
\* C3: a GET of / is answered 200 with the welcome message and an endpoints
\* mapping of exactly ping -> /ping and health -> /health.
C3_Root ==
    \A r \in Responses :
        Is(r.req, "GET", "/")
            => /\ r.resp.status = 200
               /\ r.resp.body.message = "Welcome to the Ping-Pong Server Rust Actix!"
               /\ DOMAIN r.resp.body.endpoints = {"ping", "health"}
               /\ r.resp.body.endpoints["ping"] = "/ping"
               /\ r.resp.body.endpoints["health"] = "/health"

C3_Witness ==
    \E e \in Sent :
        /\ Is(e.req, "GET", "/")
        /\ e.resp.status = 200
        /\ Cardinality(DOMAIN e.resp.body.endpoints) = 2

\* ---------------------------------------------------------------------- C4
\* C4: a GET of /health is answered 200 with status "healthy" and the value
\* the clock has when the request is handled as timestamp.
C4_HealthBody ==
    \A r \in Responses :
        Is(r.req, "GET", "/health")
            => /\ r.resp.status = 200
               /\ r.resp.body.status = "healthy"

C4_HealthStep ==
    /\ SentAsBuilt
    /\ \A w \in Workers :
        Handles(w) /\ Is(worker'[w].req, "GET", "/health")
            => worker'[w].resp.body.timestamp = clock

\* C4: every response to a GET of /health is 200 / "healthy" at all times,
\* its timestamp is the clock of the step that handles the request, and it
\* is sent as it was built.
C4_Health == []C4_HealthBody /\ [][C4_HealthStep]_vars

C4_Witness ==
    \E e \in Sent :
        /\ Is(e.req, "GET", "/health")
        /\ e.resp.status = 200
        /\ e.resp.body.status = "healthy"
        /\ e.resp.body.timestamp = MaxClock

Successive(i, j) == i < j /\ sent[j].after >= i

Stamped(e) == "timestamp" \in DOMAIN e.resp.body

SameButTimestamp(a, b) ==
    /\ a.resp.status = b.resp.status
    /\ SansTimestamp(a.resp.body) = SansTimestamp(b.resp.body)

\* C6 as stated: successive identical requests get responses that agree in
\* status and in every body field but timestamp, and the later timestamp is
\* never the smaller, whatever the clock does.
C6_TimestampsNeverDecrease ==
    \A i, j \in DOMAIN sent :
        Successive(i, j) /\ sent[i].req = sent[j].req
            => /\ SameButTimestamp(sent[i], sent[j])
               /\ Stamped(sent[i])
                    => sent[j].resp.body.timestamp >= sent[i].resp.body.timestamp

\* C6 amended: successive identical requests get responses that agree in
\* status and in every body field but timestamp, and the later timestamp is
\* not the smaller unless the wall clock was set back between the two.
C6_TimestampsFollowClock ==
    \A i, j \in DOMAIN sent :
        Successive(i, j) /\ sent[i].req = sent[j].req
            => /\ SameButTimestamp(sent[i], sent[j])
               /\ Stamped(sent[i]) /\ sent[i].era = sent[j].era
                    => sent[j].resp.body.timestamp >= sent[i].resp.body.timestamp

\* Two successive identical requests were answered, the second with the
\* greater timestamp.
C6_Witness ==
    \E i, j \in DOMAIN sent :
        /\ Successive(i, j)
        /\ sent[i].req = sent[j].req
        /\ Stamped(sent[i])
        /\ sent[j].resp.body.timestamp > sent[i].resp.body.timestamp

\* ---------------------------------------------------------------------- C7
\* C7: bind is tried once.  If it fails the process ends with a non-zero
\* status and no request is ever accepted or answered; if it succeeds the
\* server serves, and the process ends with status 0 only after that.
C7_BindOrExit ==
    /\ binds <= 1
    /\ binds = 0 => phase = "starting" /\ ~bound
    /\ binds = 1 /\ ~bound
        => /\ phase = "exited"
           /\ exitCode \notin {-1, 0}
           /\ accepted = 0
           /\ sent = << >>
           /\ Busy = {}
    /\ binds = 1 /\ bound => phase \in {"serving", "exited"}
    /\ phase = "serving" => exitCode = -1
    /\ exitCode = 0 => bound /\ phase = "exited"
    /\ accepted > 0 => bound

\* The bind failed and the process has ended with a failure status.
C7_Witness == binds = 1 /\ ~bound /\ phase = "exited" /\ exitCode = 1

\* ---------------------------------------------------------------------- C8
JsonShapes ==
    {{"message", "timestamp", "success"}, {"status", "timestamp"},
     {"message", "endpoints"}}

IsJson(resp) ==
    /\ Has(resp, "content-type")
    /\ resp.headers["content-type"] = "application/json"
    /\ DOMAIN resp.body \in JsonShapes

SameMethodAndPath(a, b) ==
    a.req.method = b.req.method /\ a.req.path = b.req.path

Levels(e) == [i \in DOMAIN e.logs |-> e.logs[i].level]

\* C10 as stated, for the default filter: a handled request causes exactly
\* one log record, at info level by root, ping and health, at warn level by
\* the 404 handler.
C10_OneRecord ==
    filter = DefaultFilter
        => \A e \in Sent :
            /\ Len(e.logs) = 1
            /\ e.logs[1].level = (IF Registered(e.req) THEN "info" ELSE "warn")

\* The log calls made for an exchange: the handler's, then Logger's.
LogCalls(e) ==
    (IF PreflightRequest(e.req) THEN << >>
     ELSE IF Registered(e.req) THEN << <<"crate", "info">> >>
     ELSE << <<"crate", "warn">> >>)
    \o << <<"actix_web::middleware::logger", "info">> >>

Admits(flt, level) ==
    \/ flt = "info"
    \/ flt = "warn" /\ level \in {"warn", "error"}
    \/ flt = "error" /\ level = "error"

\* C10 amended: a request that reaches a handler causes one record of the
\* handler (info by root, ping and health, warn by the 404 handler) and then
\* one access record of the Logger middleware at info level; a preflight
\* request causes the access record alone.  Each is written when the
\* logger's filter admits its level: both under the default filter, info.
C10_HandlerAndAccessRecord ==
    \A e \in Sent :
        LET Written(c) == Admits(filter, c[2])
            expected == SelectSeq(LogCalls(e), Written)
        IN /\ Len(e.logs) = Len(expected)
           /\ \A i \in DOMAIN e.logs :
                <<e.logs[i].target, e.logs[i].level>> = expected[i]

\* Under the default filter a 404 caused the handler's warning and the
\* access record.
C10_Witness ==
    \E e \in Sent :
        /\ filter = "info"
        /\ e.handler = "not_found"
        /\ Len(e.logs) = 2
        /\ e.logs[1].level = "warn"
        /\ e.logs[2].level = "info"
====
